---- MODULE Spec2Model ----
(***************************************************************************)
(* A model of the screenlock entity runtime (src/src/controller.rs and the *)
(* split files entity.rs, base_entity.rs, feedback_entity.rs, ...).        *)
(*                                                                         *)
(* The controller owns an ordered collection of entities, runs a tick      *)
(* phase (update + draw of every entity, then the queued property-mutation *)
(* events), polls for one input event and runs an input phase.  The        *)
(* terminal is a cursor, one saved-cursor slot and the raw-mode flag.      *)
(***************************************************************************)
EXTENDS Integers, Sequences, FiniteSets

VARIABLES
    entities,           \* Controller.entities: Seq of entity records
    events_to_process,  \* work_loop's local Vec<ControlEvent>
    pc,                 \* position in execute / work_loop
    idx,                \* position of the running for-loop over entities
    event,              \* the input event read by event::read(), or NoEvent
    term,               \* the terminal: cursor, saved cursor, raw mode, cleared
    now,                \* the monotonic clock (Instant::now())
    outcome,            \* "running", or what work_loop returned: "ok" / "err"
    log,                \* observation: what the current pass did, in order
    last,               \* observation: the last update_and_draw_entity call
    focus_pos,          \* observation: cursor left by this pass's last focused draw
    killed,             \* observation: some update returned kill = true
    applied,            \* observation: the last execute_entity_events call
    call,               \* observation: the last call of a single-entity specification
    exit,               \* observation: how work_loop ended and what cleanup did
    entered             \* observation: the text in the prompt at this pass's Enter

vars == <<entities, events_to_process, pc, idx, event, term, now, outcome,
          log, last, focus_pos, killed, applied, call, exit, entered>>

-----------------------------------------------------------------------------
(* Bounds of the model *)

\* the clock stops advancing here
MaxTime == 3
\* longest password the model lets the user type
MaxPwLen == 2

\* longest configured countdown, in hours
MaxHours == 2

\* clock units per second (Duration::as_secs truncates to whole seconds)
UnitsPerSec == 2
Minute == 60 * UnitsPerSec
Hour == 60 * Minute

None == "None"
NoEvent == [type |-> "NoEvent", code |-> "", c |-> ""]

-----------------------------------------------------------------------------
(* The terminal surface: crossterm commands acting on cursor and saved slot *)

MoveTo(col, row) == [op |-> "MoveTo", col |-> col, row |-> row, n |-> 0]
PrintText(n) == [op |-> "PrintText", col |-> 0, row |-> 0, n |-> n]
ClearCurrentLine == [op |-> "ClearLine", col |-> 0, row |-> 0, n |-> 0]
ClearAll == [op |-> "ClearAll", col |-> 0, row |-> 0, n |-> 0]
SetForegroundColor == [op |-> "SetColor", col |-> 0, row |-> 0, n |-> 0]
ResetColor == [op |-> "ResetColor", col |-> 0, row |-> 0, n |-> 0]
SavePosition == [op |-> "SavePosition", col |-> 0, row |-> 0, n |-> 0]
RestorePosition == [op |-> "RestorePosition", col |-> 0, row |-> 0, n |-> 0]

\* one command: MoveTo sets the cursor, Print advances it, SavePosition
\* overwrites the terminal's single saved slot, RestorePosition reads it
Apply(t, cmd) ==
    CASE cmd.op = "MoveTo" -> [t EXCEPT !.cursor = <<cmd.col, cmd.row>>]
      [] cmd.op = "PrintText" -> [t EXCEPT !.cursor = <<t.cursor[1] + cmd.n, t.cursor[2]>>]
      [] cmd.op = "SavePosition" -> [t EXCEPT !.saved = t.cursor]
      [] cmd.op = "RestorePosition" -> [t EXCEPT !.cursor = t.saved]
      [] cmd.op = "ClearAll" -> [t EXCEPT !.cleared = TRUE]
      [] OTHER -> t

RECURSIVE Run(_, _)
\* execute!(out, c1, c2, ...): the commands in order
Run(t, cmds) ==
    IF cmds = <<>> THEN t ELSE Run(Apply(t, Head(cmds)), Tail(cmds))

\* a write to a drawn-on screen is no longer a freshly cleared screen
Dirty(t) == [t EXCEPT !.cleared = FALSE]

-----------------------------------------------------------------------------
(* Names, properties, events *)

Keys == {"visible", "k"}
Values == {"true", "false"}

\* HashMap<String, String> as a function from Keys to a value or None (key
\* absent); HashMap::new is
EmptyMap == [k \in Keys |-> None]

\* HasProperties::get_property: the value, or None
get_property(e, key) == e.properties[key]

\* a set_property that keeps the first value of a key (entry().or_insert)
set_property_keep(e, key, value) ==
    IF e.properties[key] = None
    THEN [e EXCEPT !.properties[key] = value]
    ELSE e

\* HasProperties::set_property: HashMap::insert overwrites
set_property(e, key, value) == [e EXCEPT !.properties[key] = value]

\* an is_visible that treats the absent key as hidden (unwrap_or(false))
is_visible_absent_hidden(e) == get_property(e, "visible") = "true"

\* Visible::is_visible: get_property("visible").map(|v| v == "true").unwrap_or(true)
is_visible(e) ==
    IF get_property(e, "visible") = None THEN TRUE
    ELSE get_property(e, "visible") = "true"

\* Visible::set_visible
set_visible(e, visible) ==
    set_property(e, "visible", IF visible THEN "true" ELSE "false")

get_name(e) == e.name

ControlEvent(name, key, value) ==
    [name |-> name, property_key |-> key, property_value |-> value]

\* UpdateResult::new and the three canned results
UpdateResult(kill, focused, events) ==
    [kill |-> kill, focused |-> focused, events |-> events]
UpdateResult_kill == UpdateResult(TRUE, FALSE, <<>>)
UpdateResult_focus == UpdateResult(FALSE, TRUE, <<>>)
UpdateResult_nop == UpdateResult(FALSE, FALSE, <<>>)

-----------------------------------------------------------------------------
(* The entities.  One record shape for all kinds; a kind reads its own     *)
(* fields only.  BaseEntity<T> is the record of its inner entity with the  *)
(* wrapper's name and property map.                                        *)

\* the keys the user types: a letter in either case, and a blank
Chars == {"a", "A", " "}

Blank ==
    [kind |-> "", wrapped |-> FALSE, name |-> <<>>, properties |-> EmptyMap,
     len0 |-> 0, len1 |-> 0,
     total |-> 0, start |-> 0, print_text |-> <<>>, inner_save |-> FALSE,
     correct_password |-> <<>>, password |-> <<>>, dirty |-> FALSE,
     linked_feedback |-> <<>>,
     last_shown |-> <<>>, max_show_duration |-> 0]

\* an Entity implementor outside the four concrete ones: its update may
\* return any UpdateResult and its handle_event any bool
GenericEntity_new(id) ==
    [Blank EXCEPT !.kind = "generic", !.name = <<"GenericEntity", id>>]

StaticTextEntity_new(id, l0, l1) ==
    [Blank EXCEPT !.kind = "static", !.name = <<"StaticTextEntity", id>>,
                  !.len0 = l0, !.len1 = l1]

\* inner_save: controller.rs's draw brackets itself in SavePosition /
\* RestorePosition, count_down_entity.rs's draw does not
CountDownEntity_new(id, total, t, inner_save) ==
    [Blank EXCEPT !.kind = "countdown", !.name = <<"CountDownEntity", id>>,
                  !.total = total, !.start = t, !.print_text = <<>>,
                  !.inner_save = inner_save]

PasswordPromptEntity_new(id, prompt_len, correct_password, linked_feedback_name) ==
    [Blank EXCEPT !.kind = "prompt", !.name = <<"PasswordPromptEntity", id>>,
                  !.len0 = prompt_len,
                  !.correct_password = correct_password,
                  !.password = <<>>, !.dirty = TRUE,
                  !.linked_feedback = linked_feedback_name]

FeedbackEntity_new(id, message_len, max_shown_duration) ==
    [Blank EXCEPT !.kind = "feedback", !.name = <<"FeedbackEntity", id>>,
                  !.len0 = message_len,
                  !.last_shown = <<>>,
                  !.max_show_duration = max_shown_duration,
                  !.properties = [EmptyMap EXCEPT !["visible"] = "true"]]

\* BaseEntity::new: name "BaseEntity-" + inner name, empty property map
BaseEntity_new(delegate_entity) ==
    [delegate_entity EXCEPT !.wrapped = TRUE,
                            !.name = <<"BaseEntity">> \o get_name(delegate_entity),
                            !.properties = EmptyMap]

\* Controller::add_entity: push
add_entity(es, e) == Append(es, e)

-----------------------------------------------------------------------------
(* format!("{:02}:{:02}", minutes, seconds) *)

Digit(d) == <<"0", "1", "2", "3", "4", "5", "6", "7", "8", "9">>[d + 1]

RECURSIVE Decimal(_)
Decimal(n) == IF n < 10 THEN <<Digit(n)>> ELSE Decimal(n \div 10) \o <<Digit(n % 10)>>

\* {:02}: at least two digits, zero padded, never truncated
Pad02(n) == IF n < 10 THEN <<"0">> \o Decimal(n) ELSE Decimal(n)

FormatCountdown(minutes, seconds) == Pad02(minutes) \o <<":">> \o Pad02(seconds)

-----------------------------------------------------------------------------
(* Entity::draw of each kind, as the commands it writes *)

StaticTextEntity_draw(e) ==
    <<MoveTo(0, 1), PrintText(e.len0), MoveTo(0, 2), PrintText(e.len1)>>

CountDownEntity_draw(e) ==
    (IF e.inner_save THEN <<SavePosition>> ELSE <<>>)
    \o <<MoveTo(0, 0), ClearCurrentLine, SetForegroundColor,
         PrintText(Len(e.print_text)), ResetColor>>
    \o (IF e.inner_save THEN <<RestorePosition>> ELSE <<>>)

PasswordPromptEntity_draw(e) ==
    <<MoveTo(0, 4), ClearCurrentLine, MoveTo(0, 4),
      PrintText(e.len0 + Len(e.password)),
      MoveTo(e.len0 + Len(e.password), 4)>>

FeedbackEntity_draw(e) ==
    IF ~is_visible(e)
    THEN <<MoveTo(0, 5), ClearCurrentLine>>
    ELSE <<MoveTo(0, 5), ClearCurrentLine, MoveTo(0, 5), SetForegroundColor,
           PrintText(e.len0), ResetColor>>

\* what a generic entity may write: it draws like one of the concrete kinds
GenericDraws ==
    {StaticTextEntity_draw([Blank EXCEPT !.len0 = 2, !.len1 = 3]),
     CountDownEntity_draw([Blank EXCEPT !.print_text = FormatCountdown(0, 0),
                                        !.inner_save = TRUE]),
     PasswordPromptEntity_draw([Blank EXCEPT !.len0 = 4])}

\* the draws an entity may perform now (one, but for the generic kind)
inner_draw(e) ==
    CASE e.kind = "static" -> {StaticTextEntity_draw(e)}
      [] e.kind = "countdown" -> {CountDownEntity_draw(e)}
      [] e.kind = "prompt" -> {PasswordPromptEntity_draw(e)}
      [] e.kind = "feedback" -> {FeedbackEntity_draw(e)}
      [] OTHER -> GenericDraws

\* Entity::draw of a registered entity; BaseEntity::draw delegates
draw(e) == inner_draw(e)

-----------------------------------------------------------------------------
(* Entity::update of each kind: the entity after the call and its result.  *)
(* t is the clock reading (Instant::now / elapsed).                        *)

Result(e, res) == [ent |-> e, res |-> res]

\* the event lists a generic update may return: events addressed to the
\* first or the last registered entity or to a name that is not registered,
\* alone or two in a row on one key
GenericEvents(es) ==
    LET hide == ControlEvent(get_name(es[1]), "visible", "false")
        show == ControlEvent(get_name(es[1]), "visible", "true")
        mark == ControlEvent(get_name(es[Len(es)]), "k", "true")
        lost == ControlEvent(<<"Nobody">>, "visible", "false")
    IN  {<<>>, <<hide>>, <<mark>>, <<lost>>, <<hide, show>>}

\* Entity::update's default body
Entity_update(e) == {Result(e, UpdateResult_nop)}

GenericEntity_update(e, es) ==
    {Result(e, UpdateResult(kill, focused, evs)) :
        kill \in BOOLEAN, focused \in BOOLEAN,
        evs \in GenericEvents(es)}

\* an update that compares with < where the source has <=
CountDownEntity_over_strict(remaining) == (remaining \div UnitsPerSec) < 0

\* let over = remaining.as_secs() <= 0
CountDownEntity_over(remaining) == (remaining \div UnitsPerSec) <= 0

CountDownEntity_update(e, t) ==
    LET elapsed == t - e.start
        remaining == IF elapsed >= e.total THEN 0 ELSE e.total - elapsed
        secs == remaining \div UnitsPerSec
        minutes == secs \div 60
        seconds == secs % 60
        e1 == [e EXCEPT !.print_text = FormatCountdown(minutes, seconds)]
    IN  {Result(e1, IF CountDownEntity_over(remaining)
                    THEN UpdateResult_kill ELSE UpdateResult_nop)}

PasswordPromptEntity_update(e) ==
    IF e.password = e.correct_password /\ ~e.dirty
    THEN {Result(e, UpdateResult_kill)}
    ELSE IF ~e.dirty
    THEN {Result([e EXCEPT !.dirty = TRUE],
                 UpdateResult(FALSE, TRUE,
                              <<ControlEvent(e.linked_feedback, "visible", "true")>>))}
    ELSE {Result(e, UpdateResult_focus)}

\* an update that hides only after more than max_show_duration (> for >=)
FeedbackEntity_update_strict(e, t) ==
    LET e1 == IF is_visible(e) /\ e.last_shown = <<>>
              THEN [e EXCEPT !.last_shown = <<t>>] ELSE e
        cond == IF e1.last_shown = <<>> THEN FALSE
                ELSE t - e1.last_shown[1] > e1.max_show_duration
        e2 == IF is_visible(e1) /\ cond
              THEN [set_visible(e1, FALSE) EXCEPT !.last_shown = <<>>]
              ELSE e1
    IN  {Result(e2, UpdateResult_nop)}

FeedbackEntity_update(e, t) ==
    LET e1 == IF is_visible(e) /\ e.last_shown = <<>>
              THEN [e EXCEPT !.last_shown = <<t>>] ELSE e
        cond == IF e1.last_shown = <<>> THEN FALSE
                ELSE t - e1.last_shown[1] >= e1.max_show_duration
        e2 == IF is_visible(e1) /\ cond
              THEN [set_visible(e1, FALSE) EXCEPT !.last_shown = <<>>]
              ELSE e1
    IN  {Result(e2, UpdateResult_nop)}

\* Entity::update of a registered entity; BaseEntity::update delegates
update(e, es, t) ==
    CASE e.kind = "generic" -> GenericEntity_update(e, es)
      [] e.kind = "countdown" -> CountDownEntity_update(e, t)
      [] e.kind = "prompt" -> PasswordPromptEntity_update(e)
      [] e.kind = "feedback" -> FeedbackEntity_update(e, t)
      [] OTHER -> Entity_update(e)

-----------------------------------------------------------------------------
(* Entity::handle_event: the entity after the call and whether it acted *)

KeyChar(c) == [type |-> "Key", code |-> "Char", c |-> c]
KeyBackspace == [type |-> "Key", code |-> "Backspace", c |-> ""]
KeyEnter == [type |-> "Key", code |-> "Enter", c |-> ""]
KeyEsc == [type |-> "Key", code |-> "Esc", c |-> ""]
Resize == [type |-> "Resize", code |-> "", c |-> ""]

InputEvents == {KeyChar(c) : c \in Chars} \cup {KeyBackspace, KeyEnter, KeyEsc, Resize}

Handled(e, acted) == [ent |-> e, acted |-> acted]

\* String::pop: drops the last char, if any
Pop(s) == IF s = <<>> THEN s ELSE SubSeq(s, 1, Len(s) - 1)

\* a handle_event whose Enter clears the entered text whatever it is
PasswordPromptEntity_handle_event_clear(e, ev) ==
    IF ev.type # "Key" THEN Handled(e, FALSE)
    ELSE CASE ev.code = "Char" ->
                Handled([e EXCEPT !.password = Append(e.password, ev.c),
                                  !.dirty = TRUE], TRUE)
           [] ev.code = "Backspace" ->
                Handled([e EXCEPT !.password = Pop(e.password), !.dirty = TRUE], TRUE)
           [] ev.code = "Enter" ->
                Handled([e EXCEPT !.dirty = FALSE, !.password = <<>>], TRUE)
           [] OTHER -> Handled(e, FALSE)

PasswordPromptEntity_handle_event(e, ev) ==
    IF ev.type # "Key" THEN Handled(e, FALSE)
    ELSE CASE ev.code = "Char" ->
                Handled([e EXCEPT !.password = Append(e.password, ev.c),
                                  !.dirty = TRUE], TRUE)
           [] ev.code = "Backspace" ->
                Handled([e EXCEPT !.password = Pop(e.password), !.dirty = TRUE], TRUE)
           [] ev.code = "Enter" ->
                IF e.password = e.correct_password
                THEN Handled([e EXCEPT !.dirty = FALSE], TRUE)
                ELSE Handled([e EXCEPT !.dirty = FALSE, !.password = <<>>], TRUE)
           [] OTHER -> Handled(e, FALSE)

\* Entity::handle_event of a registered entity; BaseEntity delegates, the
\* trait's default returns false
handle_event(e, ev) ==
    CASE e.kind = "generic" -> {Handled(e, acted) : acted \in BOOLEAN}
      [] e.kind = "prompt" -> {PasswordPromptEntity_handle_event(e, ev)}
      [] OTHER -> {Handled(e, FALSE)}

-----------------------------------------------------------------------------
(* Controller *)

\* one entry of the pass log: "offer" (handle_event), "update" or "draw"
Entry(op, i, flag) == [op |-> op, i |-> i, flag |-> flag]

\* what the last update_and_draw_entity call did: the result's flags, how it
\* ended, the commands the controller itself issued, whether the entity was
\* a wrapper with "visible" = "false", how many commands its draw wrote, and
\* the cursor before the draw and as the draw left it
NoLast ==
    [op |-> "none", i |-> 0, kill |-> FALSE, focused |-> FALSE, ok |-> TRUE,
     drawn |-> "none", ctl |-> <<>>, hidden |-> FALSE, wrote |-> 0,
     pre |-> <<0, 0>>, post |-> <<0, 0>>]

UpdateDraw(i, res, ok, drawn, ctl, hidden, wrote, pre, post) ==
    [op |-> "update_draw", i |-> i, kill |-> res.kill,
     focused |-> res.focused, ok |-> ok, drawn |-> drawn, ctl |-> ctl,
     hidden |-> hidden, wrote |-> wrote, pre |-> pre, post |-> post]

\* a controller that brackets every draw, focused or not
save_cursor_always(result) == TRUE

\* a controller that never brackets a draw
save_cursor_never(result) == FALSE

\* if !result.focused { execute!(context.out, SavePosition)?; } (and Restore)
save_cursor(result) == ~result.focused

\* The body of update_and_draw_entity on entity i of es: every way the call
\* can end.  A failing execute! returns Err at once (the ? operator); a
\* failing draw has written none of its commands or all but the last.
\* draw_on_kill is TRUE in the code: the draw does not look at result.kill.
UpdateThenDraw(i, e, es, t, tm, draw_on_kill) ==
    LET hidden == e.wrapped /\ get_property(e, "visible") = "false"
        Ends(u) ==
          IF u.res.kill /\ ~draw_on_kill
          THEN {[ent |-> u.ent, res |-> u.res, term |-> tm, ok |-> TRUE,
                 entry |-> UpdateDraw(i, u.res, TRUE, "none", <<>>, hidden, 0,
                                      tm.cursor, tm.cursor)]}
          ELSE
            LET res == u.res
                t1 == IF save_cursor(res) THEN Apply(tm, SavePosition) ELSE tm
                saveCtl == IF save_cursor(res) THEN <<"SavePosition">> ELSE <<>>
                bothCtl == IF save_cursor(res)
                           THEN <<"SavePosition", "RestorePosition">> ELSE <<>>
                pre == tm.cursor
            IN  \* SavePosition fails: the entity is never drawn
                {[ent |-> u.ent, res |-> res, term |-> tm, ok |-> FALSE,
                  entry |-> UpdateDraw(i, res, FALSE, "none", <<>>, hidden, 0, pre, pre)] :
                    x \in IF save_cursor(res) THEN {1} ELSE {}}
                \cup
                UNION {
                    LET t2 == Run(Dirty(t1), prog)
                        t3 == IF save_cursor(res) THEN Apply(t2, RestorePosition) ELSE t2
                    IN  \* the draw fails part-way
                        {[ent |-> u.ent, res |-> res,
                          term |-> Run(Dirty(t1), SubSeq(prog, 1, n)), ok |-> FALSE,
                          entry |-> UpdateDraw(i, res, FALSE, "partial", saveCtl, hidden, n,
                                               pre, Run(t1, SubSeq(prog, 1, n)).cursor)] :
                            n \in {0, Len(prog) - 1} \cap (0..(Len(prog) - 1))}
                        \cup
                        \* RestorePosition fails after a complete draw
                        {[ent |-> u.ent, res |-> res, term |-> t2, ok |-> FALSE,
                          entry |-> UpdateDraw(i, res, FALSE, "done", saveCtl, hidden,
                                               Len(prog), pre, t2.cursor)] :
                            x \in IF save_cursor(res) THEN {1} ELSE {}}
                        \cup
                        \* Ok(result)
                        {[ent |-> u.ent, res |-> res, term |-> t3, ok |-> TRUE,
                          entry |-> UpdateDraw(i, res, TRUE, "done", bothCtl, hidden,
                                               Len(prog), pre, t2.cursor)]}
                    : prog \in draw(u.ent)}
    IN  UNION {Ends(u) : u \in update(e, es, t)}

\* an update_and_draw_entity that returns a killing result without drawing
update_and_draw_entity_kill_first(i, e, es, t, tm) ==
    UpdateThenDraw(i, e, es, t, tm, FALSE)

\* Controller::update_and_draw_entity
update_and_draw_entity(i, e, es, t, tm) ==
    UpdateThenDraw(i, e, es, t, tm, TRUE)

\* the position of the first entity named n, or 0
FirstNamed(es, n) ==
    IF \E j \in 1..Len(es) : get_name(es[j]) = n
    THEN CHOOSE j \in 1..Len(es) :
            /\ get_name(es[j]) = n
            /\ \A m \in 1..(j - 1) : get_name(es[m]) # n
    ELSE 0

\* a router without the break: every entity of that name is set
apply_event_all(es, ev) ==
    [j \in 1..Len(es) |->
        IF get_name(es[j]) = ev.name
        THEN set_property(es[j], ev.property_key, ev.property_value)
        ELSE es[j]]

\* a router that gives an unrouted event to the first entity
apply_event_unmatched_first(es, ev) ==
    LET j == IF FirstNamed(es, ev.name) = 0 THEN 1 ELSE FirstNamed(es, ev.name)
    IN  [es EXCEPT ![j] = set_property(es[j], ev.property_key, ev.property_value)]

\* the inner for loop of execute_entity_events: first match, then break
apply_event(es, ev) ==
    LET j == FirstNamed(es, ev.name)
    IN  IF j = 0 THEN es
        ELSE [es EXCEPT ![j] = set_property(es[j], ev.property_key, ev.property_value)]

RECURSIVE execute_entity_events(_, _)
\* for event in events.drain(..): the events in order
execute_entity_events(es, events) ==
    IF events = <<>> THEN es
    ELSE execute_entity_events(apply_event(es, Head(events)), Tail(events))

\* an execute_entity_events that iterates over the events and leaves them
\* in the vector
drain_none(events) == events

\* events.drain(..) leaves the vector empty
drain(events) == <<>>

NoApplied == [phase |-> "none", events |-> <<>>, before |-> <<>>]
Applied(phase, events, es) ==
    [phase |-> phase, events |-> events,
     before |-> [j \in 1..Len(es) |-> es[j].properties]]

\* a loop that swallows the error of update_and_draw_entity and goes on
propagates_never(ok) == FALSE

\* Self::update_and_draw_entity(entity, context)?: Err returns at once
propagates(ok) == ~ok

\* the statement of update_and_draw_entity that failed
FailedAt(entry) ==
    CASE entry.drawn = "none" -> "save"
      [] entry.drawn = "partial" -> "draw"
      [] OTHER -> "restore"

\* a loop that ignores kill
stops_never(result) == FALSE

\* a loop that returns Ok after any update
stops_always(result) == TRUE

\* if result.kill { return Ok(()); }
stops(result) == result.kill

-----------------------------------------------------------------------------
(* The controllers the model starts from: Controller::new, then add_entity *)

FeedbackName == <<"FeedbackEntity", "f">>

\* two wrapped generic entities of the same name, then a wrapped title
GenericController ==
    add_entity(add_entity(add_entity(<<>>,
        BaseEntity_new(GenericEntity_new("a"))),
        BaseEntity_new(GenericEntity_new("a"))),
        BaseEntity_new(StaticTextEntity_new("t", 2, 3)))

\* the lock screen: title, countdown, password prompt, feedback banner
LockController(inner_save) ==
    add_entity(add_entity(add_entity(add_entity(<<>>,
        BaseEntity_new(StaticTextEntity_new("t", 2, 3))),
        BaseEntity_new(CountDownEntity_new("c", 2, 0, inner_save))),
        BaseEntity_new(PasswordPromptEntity_new("p", 4, <<"a">>, FeedbackName))),
        FeedbackEntity_new("f", 3, 1))

\* the passwords a prompt is configured with: none, one letter, a longer one
CorrectPasswords == {<<>>, <<"a">>, <<"a", "A">>}

\* a password prompt and its feedback banner alone
PromptController(correct_password) ==
    add_entity(add_entity(<<>>,
        BaseEntity_new(PasswordPromptEntity_new("p", 4, correct_password, FeedbackName))),
        FeedbackEntity_new("f", 3, 1))

Controllers ==
    {GenericController}
        \cup {LockController(b) : b \in BOOLEAN}
        \cup {PromptController(w) : w \in CorrectPasswords}

Terminal0 == [cursor |-> <<0, 0>>, saved |-> <<0, 0>>, raw |-> FALSE, cleared |-> FALSE]

\* no exit yet; path names the statement that ended the loop, cleanup lists
\* the calls cleanup made and whether each succeeded
NoExit == [path |-> "none", phase |-> "none", cleanup |-> <<>>, carried |-> <<>>]
Exit(path, phase) == [path |-> path, phase |-> phase, cleanup |-> <<>>, carried |-> <<>>]

NoCall == [op |-> "none", key |-> "", value |-> "", ret |-> "",
           prev |-> "none", prev_key |-> "", prev_value |-> "", before |-> EmptyMap,
           never |-> {}]

Init ==
    /\ entities \in Controllers
    /\ events_to_process = <<>>
    /\ pc = "start"
    /\ idx = 1
    /\ event = NoEvent
    /\ term = Terminal0
    /\ now = 0
    /\ outcome = "running"
    /\ log = <<>>
    /\ last = NoLast
    /\ focus_pos = <<>>
    /\ killed = FALSE
    /\ applied = NoApplied
    /\ call = NoCall
    /\ exit = NoExit
    /\ entered = <<>>

-----------------------------------------------------------------------------
(* Controller::execute and Controller::work_loop, one action per step *)

\* execute, up to the call of work_loop: enable_raw_mode()?, then
\* execute!(Clear(All), MoveTo(0, 0))?
ExecuteBegin ==
    /\ pc = "start"
    /\ \E fail \in {"none", "raw", "clear"} :
        /\ term' = CASE fail = "raw" -> term
                     [] fail = "clear" -> [term EXCEPT !.raw = TRUE]
                     [] OTHER -> Run([term EXCEPT !.raw = TRUE], <<ClearAll, MoveTo(0, 0)>>)
        /\ pc' = IF fail = "none" THEN "tick" ELSE "unwind"
        /\ outcome' = IF fail = "none" THEN "running" ELSE "err"
        /\ exit' = IF fail = "none" THEN exit ELSE Exit(fail, "setup")
    /\ UNCHANGED <<entities, events_to_process, idx, event, now, log, last,
                   focus_pos, killed, applied, call, entered>>

\* a loop that applies an update's events as soon as it has returned
events_extend_eager(es, queue, events) ==
    [entities |-> execute_entity_events(es, events), queue |-> queue]

\* events_to_process.extend(result.events): the entities stay as they are
events_extend(es, queue, events) ==
    [entities |-> es, queue |-> queue \o events]

\* a loop that applies what is queued, and the killing result's own events,
\* before it returns
return_on_kill_apply(es, queue, events) == execute_entity_events(es, queue \o events)

\* if result.kill { return Ok(()); }: the queue and the result are dropped
return_on_kill(es, queue, events) == es

\* an input loop that breaks once an entity has consumed the event
next_entity_break(i, es, consumed) == IF consumed THEN Len(es) + 1 ELSE i + 1

\* for entity in self.entities.iter_mut(): on to the next entity, whether
\* or not this one consumed the event
next_entity(i, es, consumed) == i + 1

\* a loop that updates and draws every entity it offered the event to
acts_always(acted) == TRUE

\* if acted { ... }
acts(acted) == acted

\* what follows an update_and_draw_entity call o on entity idx; offered is
\* the pass log's entry of the handle_event call before it, if any
AfterUpdateDraw(o, offered) ==
    /\ term' = o.term
    /\ log' = log \o offered
                \o <<Entry("update", idx, o.res.kill)>>
                \o (IF o.entry.drawn = "none" THEN <<>>
                    ELSE <<Entry("draw", idx, o.entry.drawn = "done")>>)
    /\ last' = o.entry
    /\ focus_pos' = IF o.ok /\ o.res.focused THEN <<o.entry.post>> ELSE focus_pos
    /\ applied' = NoApplied
    /\ IF propagates(o.ok)
       THEN /\ pc' = "unwind"
            /\ outcome' = "err"
            /\ exit' = Exit(FailedAt(o.entry), pc)
            /\ killed' = (killed \/ o.res.kill)
            /\ entities' = [entities EXCEPT ![idx] = o.ent]
            /\ UNCHANGED <<events_to_process, idx>>
       ELSE IF stops(o.res)
       THEN /\ pc' = "unwind"
            /\ outcome' = "ok"
            /\ exit' = [Exit("kill", pc) EXCEPT !.carried = o.res.events]
            /\ killed' = (killed \/ o.res.kill)
            /\ entities' = return_on_kill([entities EXCEPT ![idx] = o.ent],
                                          events_to_process, o.res.events)
            /\ UNCHANGED <<events_to_process, idx>>
       ELSE /\ LET q == events_extend([entities EXCEPT ![idx] = o.ent],
                                      events_to_process, o.res.events)
               IN  /\ entities' = q.entities
                   /\ events_to_process' = q.queue
            /\ idx' = next_entity(idx, entities, offered # <<>>)
            /\ killed' = (killed \/ o.res.kill)
            /\ UNCHANGED <<pc, outcome, exit>>

\* the tick phase's loop body, for entity idx
TickStep ==
    /\ pc = "tick"
    /\ idx <= Len(entities)
    /\ \E o \in update_and_draw_entity(idx, entities[idx], entities, now, term) :
        AfterUpdateDraw(o, <<>>)
    /\ UNCHANGED <<event, now, call, entered>>

\* after the tick phase's loop: self.execute_entity_events(&mut events_to_process)
TickEnd ==
    /\ pc = "tick"
    /\ idx > Len(entities)
    /\ entities' = execute_entity_events(entities, events_to_process)
    /\ applied' = Applied("tick", events_to_process, entities)
    /\ events_to_process' = drain(events_to_process)
    /\ pc' = "poll"
    /\ UNCHANGED <<idx, event, term, now, outcome, log, last, focus_pos, killed,
                   call, exit, entered>>

\* the next iteration of the outer loop
NextIteration ==
    /\ events_to_process' = <<>>
    /\ pc' = "tick"
    /\ idx' = 1
    /\ log' = <<>>
    /\ last' = NoLast
    /\ focus_pos' = <<>>
    /\ event' = NoEvent
    /\ entered' = <<>>

\* event::poll(self.poll_interval)? returns false
PollTimeout ==
    /\ pc = "poll"
    /\ NextIteration
    /\ applied' = NoApplied
    /\ UNCHANGED <<entities, term, now, outcome, killed, call, exit>>

\* a password longer than MaxPwLen is not typed
Typable(ev) ==
    ev.code = "Char" =>
        \A j \in 1..Len(entities) :
            entities[j].kind = "prompt" => Len(entities[j].password) < MaxPwLen

\* event::poll returns true and event::read()? returns ev
PollEvent ==
    /\ pc = "poll"
    /\ \E ev \in InputEvents :
        /\ Typable(ev)
        /\ event' = ev
    /\ pc' = "input"
    /\ idx' = 1
    /\ log' = <<>>
    /\ last' = NoLast
    /\ focus_pos' = <<>>
    /\ applied' = NoApplied
    /\ UNCHANGED <<entities, events_to_process, term, now, outcome, killed, call,
                   exit, entered>>

\* event::poll or event::read fails
PollFail ==
    /\ pc = "poll"
    /\ pc' = "unwind"
    /\ outcome' = "err"
    /\ exit' = Exit("poll", "poll")
    /\ applied' = NoApplied
    /\ UNCHANGED <<entities, events_to_process, idx, event, term, now, log,
                   last, focus_pos, killed, call, entered>>

\* the input phase's loop body, for entity idx
InputStep ==
    /\ pc = "input"
    /\ idx <= Len(entities)
    /\ \E h \in handle_event(entities[idx], event) :
        IF acts(h.acted)
        THEN \E o \in update_and_draw_entity(idx, h.ent, entities, now, term) :
                AfterUpdateDraw(o, <<Entry("offer", idx, h.acted)>>)
        ELSE /\ entities' = [entities EXCEPT ![idx] = h.ent]
             /\ log' = Append(log, Entry("offer", idx, FALSE))
             /\ idx' = next_entity(idx, entities, FALSE)
             /\ applied' = NoApplied
             /\ UNCHANGED <<events_to_process, pc, term, outcome, last, focus_pos,
                            killed, exit>>
    /\ entered' = IF entities[idx].kind = "prompt" /\ event = KeyEnter
                  THEN <<entities[idx].password>> ELSE entered
    /\ UNCHANGED <<event, now, call>>

\* after the input phase's loop: execute_entity_events, then loop
InputEnd ==
    /\ pc = "input"
    /\ idx > Len(entities)
    /\ entities' = execute_entity_events(entities, events_to_process)
    /\ applied' = Applied("input", events_to_process, entities)
    /\ NextIteration
    /\ UNCHANGED <<term, now, outcome, killed, call, exit>>

\* a cleanup that execute calls itself, after work_loop returned Ok
dropped_on_ok(result) == result = "ok"

\* context is a local of execute: it is dropped however execute returns
dropped(result) == TRUE

\* one call of cleanup and whether it succeeded
CleanupCall(op, ok) == [op |-> op, ok |-> ok]

\* execute returns: work_loop's locals are gone, context goes out of scope
\* and Drop runs cleanup, which ignores the result of both of its calls
DropContext ==
    /\ pc = "unwind"
    /\ \E rawFails \in BOOLEAN, clearFails \in BOOLEAN :
        IF dropped(outcome)
        THEN /\ term' = LET t1 == IF rawFails THEN term ELSE [term EXCEPT !.raw = FALSE]
                        IN  IF clearFails THEN t1 ELSE Run(t1, <<ClearAll, MoveTo(0, 0)>>)
             /\ exit' = [exit EXCEPT !.cleanup =
                            <<CleanupCall("disable_raw_mode", ~rawFails),
                              CleanupCall("clear", ~clearFails)>>,
                                      !.carried = <<>>]
        ELSE UNCHANGED <<term, exit>>
    /\ pc' = "returned"
    /\ events_to_process' = <<>>
    /\ idx' = 1
    /\ event' = NoEvent
    /\ log' = <<>>
    /\ last' = NoLast
    /\ focus_pos' = <<>>
    /\ applied' = NoApplied
    /\ entered' = <<>>
    /\ UNCHANGED <<entities, now, outcome, killed, call>>

\* time passes while the loop runs (modelled when some entity reads the clock)
AdvanceClock ==
    /\ pc \in {"tick", "poll", "input"}
    /\ \E j \in 1..Len(entities) : entities[j].kind \in {"countdown", "feedback"}
    /\ now < MaxTime
    /\ now' = now + 1
    /\ UNCHANGED <<entities, events_to_process, pc, idx, event, term, outcome,
                   log, last, focus_pos, killed, applied, call, exit, entered>>

Next ==
    \/ ExecuteBegin
    \/ TickStep
    \/ TickEnd
    \/ PollTimeout
    \/ PollEvent
    \/ PollFail
    \/ InputStep
    \/ InputEnd
    \/ DropContext
    \/ AdvanceClock

Spec == Init /\ [][Next]_vars

\* The loop of a prompt and its feedback banner, running: the single thread
\* of work_loop takes its next step, the poll returns, and time passes.
InitPrompt ==
    /\ Init
    /\ entities = PromptController(<<"a">>)

SpecPrompt ==
    /\ InitPrompt
    /\ [][Next]_vars
    /\ WF_vars(TickStep)
    /\ WF_vars(TickEnd)
    /\ WF_vars(PollTimeout \/ PollEvent \/ PollFail)
    /\ WF_vars(InputStep)
    /\ WF_vars(InputEnd)
    /\ WF_vars(AdvanceClock)

-----------------------------------------------------------------------------
(* The property stores on their own: the HasProperties and Visible calls   *)
(* applied to a freshly constructed BaseEntity and FeedbackEntity.         *)

\* a value outside the two the Visible convention writes
StoreValues == Values \cup {"x"}

Bool(b) == IF b THEN "true" ELSE "false"

Stores ==
    {BaseEntity_new(StaticTextEntity_new("t", 2, 3)), FeedbackEntity_new("f", 3, 1)}

\* the keys no call has set yet: FeedbackEntity::new inserts "visible"
NeverSet(e) == {k \in Keys : e.properties[k] = None}

InitStore ==
    /\ \E e \in Stores :
        /\ entities = <<e>>
        /\ call = [NoCall EXCEPT !.never = NeverSet(e)]
    /\ events_to_process = <<>>
    /\ pc = "store"
    /\ idx = 1
    /\ event = NoEvent
    /\ term = Terminal0
    /\ now = 0
    /\ outcome = "running"
    /\ log = <<>>
    /\ last = NoLast
    /\ focus_pos = <<>>
    /\ killed = FALSE
    /\ applied = NoApplied
    /\ exit = NoExit
    /\ entered = <<>>

StoreFrame ==
    UNCHANGED <<events_to_process, pc, idx, event, term, now, outcome, log, last,
                focus_pos, killed, applied, exit, entered>>

\* the record of a call: what it was, what it returned, the call before it,
\* and the property map it started from
Called(op, key, value, ret, never) ==
    [op |-> op, key |-> key, value |-> value, ret |-> ret,
     prev |-> call.op, prev_key |-> call.key, prev_value |-> call.value,
     before |-> entities[1].properties, never |-> never]

StoreSetProperty ==
    /\ pc = "store"
    /\ \E k \in Keys, v \in StoreValues :
        /\ entities' = <<set_property(entities[1], k, v)>>
        /\ call' = Called("set_property", k, v, "true", call.never \ {k})
    /\ StoreFrame

StoreGetProperty ==
    /\ pc = "store"
    /\ \E k \in Keys :
        call' = Called("get_property", k, "", get_property(entities[1], k), call.never)
    /\ UNCHANGED entities
    /\ StoreFrame

StoreSetVisible ==
    /\ pc = "store"
    /\ \E b \in BOOLEAN :
        /\ entities' = <<set_visible(entities[1], b)>>
        /\ call' = Called("set_visible", "visible", Bool(b), "", call.never \ {"visible"})
    /\ StoreFrame

StoreIsVisible ==
    /\ pc = "store"
    /\ call' = Called("is_visible", "visible", "", Bool(is_visible(entities[1])), call.never)
    /\ UNCHANGED entities
    /\ StoreFrame

NextStore ==
    \/ StoreSetProperty
    \/ StoreGetProperty
    \/ StoreSetVisible
    \/ StoreIsVisible

SpecStore == InitStore /\ [][NextStore]_vars

-----------------------------------------------------------------------------
(* The countdown on its own: CountDownEntity::new with a configured total, *)
(* then updates at arbitrary clock readings (any tick frequency).          *)

\* the configured totals: whole hours, minutes and seconds up to MaxHours
\* (20 s, 100 min and 2 h among them), and totals with a half second
CountDownTotals ==
    {h * Hour + m * Minute + s :
        h \in 0..MaxHours, m \in {0, 40, 59}, s \in {0, 1, UnitsPerSec, 20 * UnitsPerSec}}

\* the elapsed times at which the clock is read: around the start, around
\* the total, and a second, a minute and a hundred minutes from either
CountDownOffsets == {0, 1, UnitsPerSec, Minute - 1, Minute, 100 * Minute}

CountDownReadings(total) ==
    {t \in {d : d \in CountDownOffsets}
            \cup {total - d : d \in CountDownOffsets}
            \cup {total + d : d \in CountDownOffsets} : t >= 0}

NoUpdate == [op |-> "none", elapsed |-> 0, kill |-> FALSE,
             prev |-> "none", prev_kill |-> FALSE]

InitCountDown ==
    /\ \E total \in CountDownTotals, t \in 0..1 :
        /\ entities = <<CountDownEntity_new("c", total, t, FALSE)>>
        /\ now = t
    /\ call = NoUpdate
    /\ events_to_process = <<>>
    /\ pc = "countdown"
    /\ idx = 1
    /\ event = NoEvent
    /\ term = Terminal0
    /\ outcome = "running"
    /\ log = <<>>
    /\ last = NoLast
    /\ focus_pos = <<>>
    /\ killed = FALSE
    /\ applied = NoApplied
    /\ exit = NoExit
    /\ entered = <<>>

CountDownFrame ==
    UNCHANGED <<events_to_process, pc, idx, event, term, outcome, log, last,
                focus_pos, killed, applied, exit, entered>>

\* wall-clock time passes between two updates
CountDownElapse ==
    /\ pc = "countdown"
    /\ \E d \in CountDownReadings(entities[1].total) :
        /\ entities[1].start + d > now
        /\ now' = entities[1].start + d
    /\ UNCHANGED <<entities, call>>
    /\ CountDownFrame

\* one call of CountDownEntity::update at the current clock reading
CountDownUpdate ==
    /\ pc = "countdown"
    /\ \E r \in CountDownEntity_update(entities[1], now) :
        /\ entities' = <<r.ent>>
        /\ call' = [op |-> "update", elapsed |-> now - entities[1].start,
                    kill |-> r.res.kill,
                    prev |-> call.op, prev_kill |-> call.kill]
    /\ UNCHANGED now
    /\ CountDownFrame

NextCountDown ==
    \/ CountDownElapse
    \/ CountDownUpdate

SpecCountDown == InitCountDown /\ [][NextCountDown]_vars

-----------------------------------------------------------------------------
(* Properties *)

InLoop == pc \in {"tick", "poll", "input"}

\* the positions of the pass log where an update returned kill = true
KillUpdates == {p \in DOMAIN log : log[p].op = "update" /\ log[p].flag}

\* C1: once an update has returned kill = true, the pass log holds nothing
\* after it but the draw of that same entity (no update, draw or offer of a
\* later entity), every entry is of that entity or an earlier one, and the
\* loop is over: no later pass starts.
C1_KillEndsPassAndLoop ==
    /\ killed => pc \in {"unwind", "returned"}
    /\ \A p \in KillUpdates :
        /\ \A q \in (p + 1)..Len(log) : log[q].op = "draw" /\ log[q].i = log[p].i
        /\ \A q \in DOMAIN log : log[q].i <= log[p].i

\* C1 witness: a kill in the input phase by an entity that is not the last,
\* an earlier entity having been offered the event
C1_Witness ==
    /\ pc = "unwind"
    /\ outcome = "ok"
    /\ event # NoEvent
    /\ \E p \in KillUpdates : log[p].i > 1 /\ log[p].i < Len(entities)

\* C2: work_loop returns Ok only after some update returned kill = true;
\* while no update has returned kill and no I/O call has failed the loop is
\* still running and has a next step.
C2_OkOnlyAfterKill ==
    /\ outcome = "ok" => killed
    /\ (~killed /\ outcome # "err" /\ pc # "start") =>
        /\ InLoop
        /\ ENABLED (TickStep \/ TickEnd \/ PollTimeout \/ InputStep \/ InputEnd)

\* C2 witness: the loop has returned Ok, in the tick phase, after a kill
C2_Witness ==
    /\ pc = "unwind"
    /\ outcome = "ok"
    /\ killed
    /\ event = NoEvent

\* the draw entries of the pass log after position p
DrawsAfter(p) == {q \in (p + 1)..Len(log) : log[q].op = "draw"}

\* C3 as stated: an entity whose update returned kill = true is rendered
\* exactly once for that update, the render complete, before the loop ends.
C3_KillerAlwaysRendered ==
    \A p \in KillUpdates :
        /\ Cardinality(DrawsAfter(p)) = 1
        /\ \A q \in DrawsAfter(p) : log[q].i = log[p].i /\ log[q].flag

\* C3 amended: the entity is rendered at most once for the killing update,
\* and exactly once, completely, unless a terminal call of that
\* update_and_draw_entity fails; the loop returns Ok only after that render.
C3_KillerRenderedUnlessIoFails ==
    \A p \in KillUpdates :
        /\ Cardinality(DrawsAfter(p)) <= 1
        /\ \A q \in DrawsAfter(p) : log[q].i = log[p].i
        /\ (last.ok \/ outcome = "ok") =>
                SubSeq(log, p + 1, Len(log)) = <<Entry("draw", log[p].i, TRUE)>>

\* C3 witness: the loop has ended Ok on a kill and the killer's draw is the
\* last entry of the pass log
C3_Witness ==
    /\ pc = "unwind"
    /\ outcome = "ok"
    /\ Len(log) >= 2
    /\ log[Len(log) - 1] = Entry("update", last.i, TRUE)
    /\ log[Len(log)] = Entry("draw", last.i, TRUE)
    /\ last.wrote > 0

\* entity j is the first registered entity of name n
IsFirstNamed(j, n) ==
    /\ get_name(entities[j]) = n
    /\ \A m \in 1..(j - 1) : get_name(entities[m]) # n

Registered(n) == \E j \in 1..Len(entities) : get_name(entities[j]) = n

\* the events of the last applied batch that set key k of entity j
Setting(j, k) ==
    {p \in DOMAIN applied.events :
        /\ applied.events[p].property_key = k
        /\ IsFirstNamed(j, applied.events[p].name)}

Max(S) == CHOOSE x \in S : \A y \in S : y <= x

\* C4: after a batch of events is applied, an event whose target name is
\* registered has set its key on the first entity of that name (the last
\* such event of the batch deciding the value), and every other key of
\* every entity, later entities of the same name included, is as before.
C4_EventSetsFirstMatchOnly ==
    applied.phase # "none" =>
        \A j \in 1..Len(entities) : \A k \in Keys :
            entities[j].properties[k] =
                IF Setting(j, k) = {} THEN applied.before[j][k]
                ELSE applied.events[Max(Setting(j, k))].property_value

\* C4 witness: an event addressed to a name registered twice changed the
\* first entity of that name and not the second
C4_Witness ==
    /\ applied.phase # "none"
    /\ \E p \in DOMAIN applied.events :
        /\ get_name(entities[1]) = applied.events[p].name
        /\ get_name(entities[2]) = applied.events[p].name
    /\ entities[1].properties["visible"] = "false"
    /\ applied.before[1]["visible"] # "false"
    /\ entities[2].properties = applied.before[2]

\* C5: an event whose target name is not registered changes no property
\* map and raises no error: after the batch the loop is still running, a
\* batch of unrouted events alone leaves every map as before, and the
\* registered events queued after an unrouted one are applied.
C5_UnroutedEventDropped ==
    applied.phase # "none" =>
        /\ outcome = "running" /\ InLoop
        /\ (\A p \in DOMAIN applied.events : ~Registered(applied.events[p].name)) =>
                \A j \in 1..Len(entities) : entities[j].properties = applied.before[j]
        /\ \A p \in DOMAIN applied.events : \A q \in DOMAIN applied.events :
                (/\ p < q
                 /\ ~Registered(applied.events[p].name)
                 /\ Registered(applied.events[q].name)
                 /\ \A r \in (q + 1)..Len(applied.events) :
                        applied.events[r].property_key # applied.events[q].property_key) =>
                    \E j \in 1..Len(entities) :
                        /\ IsFirstNamed(j, applied.events[q].name)
                        /\ entities[j].properties[applied.events[q].property_key]
                                = applied.events[q].property_value

\* C5 witness: a batch whose first event is unrouted and whose second is
\* routed has been applied, and the loop goes on to poll
C5_Witness ==
    /\ applied.phase = "tick"
    /\ pc = "poll"
    /\ Len(applied.events) = 2
    /\ ~Registered(applied.events[1].name)
    /\ Registered(applied.events[2].name)
    /\ entities[Len(entities)].properties["k"] = "true"
    /\ applied.before[Len(entities)]["k"] = None

\* C6 as stated: the draw of a BaseEntity whose "visible" property is
\* "false" writes nothing to the terminal (the inner draw is not invoked).
C6_HiddenWrapperDrawsNothing ==
    (last.op = "update_draw" /\ last.hidden) => last.wrote = 0

\* C7: in both stores, get_property(k) right after set_property(k, v)
\* returns v, a set_property leaves every other key as it was, and
\* get_property of a key never set returns None.
C7_SetThenGetRoundTrip ==
    /\ (call.op = "get_property" /\ call.prev = "set_property"
            /\ call.key = call.prev_key) => call.ret = call.prev_value
    /\ call.op = "set_property" =>
            \A k \in Keys \ {call.key} : entities[1].properties[k] = call.before[k]
    /\ (call.op = "get_property" /\ call.key \in call.never) => call.ret = None

\* C7 witness: a get_property that returned the value the set_property
\* before it stored over a different earlier value
C7_Witness ==
    /\ call.op = "get_property"
    /\ call.prev = "set_property"
    /\ call.key = call.prev_key
    /\ call.ret = "x"
    /\ entities[1].kind = "feedback"
    /\ call.key = "visible"

\* C8: is_visible() is true when "visible" is absent, returns b right
\* after set_visible(b), and is false exactly when the key is present with
\* a value other than "true".
C8_VisibleDefaultsTrue ==
    call.op = "is_visible" =>
        /\ entities[1].properties["visible"] = None => call.ret = "true"
        /\ call.prev = "set_visible" => call.ret = call.prev_value
        /\ call.ret = "false" <=>
            (/\ entities[1].properties["visible"] # None
             /\ entities[1].properties["visible"] # "true")

\* C8 witness: is_visible() answered true on a store without the key
C8_Witness ==
    /\ call.op = "is_visible"
    /\ entities[1].properties["visible"] = None
    /\ call.ret = "true"

\* C9: after an update_and_draw_entity that returned Ok for a result with
\* focused = false, the controller has issued SavePosition and
\* RestorePosition around the draw and the cursor is where it was before
\* the draw; for focused = true the controller issued neither.
C9_UnfocusedDrawRestoresCursor ==
    (pc # "returned" /\ last.op = "update_draw") =>
        /\ (last.ok /\ ~last.focused) =>
                /\ last.ctl = <<"SavePosition", "RestorePosition">>
                /\ term.cursor = last.pre
        /\ last.focused => last.ctl = <<>>

\* C9 witness: an unfocused draw moved the cursor and the cursor is back
C9_Witness ==
    /\ pc = "tick"
    /\ last.op = "update_draw"
    /\ last.ok
    /\ ~last.focused
    /\ last.post # last.pre
    /\ term.cursor = last.pre

\* C10: when a tick pass completes in which some entity returned
\* focused = true, the cursor is where the draw of the last such entity
\* left it.
C10_FocusedDrawKeepsCursor ==
    (pc = "poll" /\ focus_pos # <<>>) => term.cursor = focus_pos[1]

\* C10 witness: the pass ended with an unfocused entity drawing elsewhere
\* after the focused one
C10_Witness ==
    /\ pc = "poll"
    /\ focus_pos # <<>>
    /\ last.op = "update_draw"
    /\ ~last.focused
    /\ last.post # focus_pos[1]
    /\ term.cursor = focus_pos[1]

-----------------------------------------------------------------------------
(* Exit paths, error propagation *)

ErrorPaths == {"raw", "clear", "save", "draw", "restore", "poll"}

Updates == {p \in DOMAIN log : log[p].op = "update"}

\* an update_and_draw_entity has failed: the loop is over with that error,
\* the failing entity's entries are the last of the pass log, no entity has
\* been updated twice and nothing has been applied
FailureEndsPass ==
    /\ (last.op = "update_draw" /\ ~last.ok) =>
            /\ pc = "unwind"
            /\ outcome = "err"
            /\ exit.path = FailedAt(last)
            /\ applied = NoApplied
            /\ \A p \in DOMAIN log : log[p].i <= last.i
            /\ log[Len(log)].i = last.i
            /\ log[Len(log)].op = (IF last.drawn = "none" THEN "update" ELSE "draw")
            /\ \A p \in Updates : \A q \in Updates : log[p].i = log[q].i => p = q
    /\ exit.path \in ErrorPaths => pc \in {"unwind", "returned"} /\ outcome = "err"

\* once work_loop has returned, the only step left is the return of execute
\* and it changes no entity and not the result
ReturnOnly ==
    pc \in {"unwind", "returned"} =>
        /\ pc' = "returned"
        /\ entities' = entities
        /\ outcome' = outcome

\* C12: a failed terminal call of update_and_draw_entity (cursor save, draw,
\* cursor restore) or a failed poll or read ends work_loop and execute with
\* an error at once: the failing entity's entries are the last of the pass
\* log (no later entity is updated, drawn or offered the event), no entity
\* is updated twice in the pass (nothing is retried), the queued events are
\* not applied, and from the failure to the return of execute no entity
\* changes and the result stays the error.
C12_IoFailurePropagates == []FailureEndsPass /\ [][ReturnOnly]_vars

\* C12 witness: in the input phase the draw of a consuming entity that is
\* not the last failed part-way with events queued; the loop has ended with
\* the error and the queue was not applied
C12_Witness ==
    /\ pc = "unwind"
    /\ outcome = "err"
    /\ exit.path = "draw"
    /\ exit.phase = "input"
    /\ last.i < Len(entities)
    /\ last.wrote > 0
    /\ events_to_process # <<>>
    /\ applied = NoApplied

-----------------------------------------------------------------------------
(* The password flow *)

\* Enter has been dispatched to the prompt at position i in this input pass
EnterDispatched(i) ==
    /\ entities[i].kind = "prompt"
    /\ pc \in {"input", "unwind"}
    /\ event = KeyEnter
    /\ entered # <<>>

\* the pass log holds the entries p, q one after the other
Adjacent(p, q) == \E n \in 1..(Len(log) - 1) : log[n] = p /\ log[n + 1] = q

\* C13: for a non-empty correct password, when Enter is dispatched while
\* the entered text equals it, the prompt consumes the Enter, the update
\* that follows at once in that input pass returns kill = true, and the
\* loop ends there (Ok, or the error of that entity's draw).
C13_MatchingEnterKills ==
    \A i \in 1..Len(entities) :
        (/\ EnterDispatched(i)
         /\ entered[1] = entities[i].correct_password
         /\ entities[i].correct_password # <<>>) =>
            /\ Adjacent(Entry("offer", i, TRUE), Entry("update", i, TRUE))
            /\ last.op = "update_draw" /\ last.i = i /\ last.kill
            /\ pc = "unwind"
            /\ outcome = (IF last.ok THEN "ok" ELSE "err")

\* C13 witness: the two-letter password was typed, Enter ended the loop Ok
C13_Witness ==
    /\ pc = "unwind"
    /\ outcome = "ok"
    /\ event = KeyEnter
    /\ entered = << <<"a", "A">> >>
    /\ entities[1].kind = "prompt"
    /\ entities[1].correct_password = <<"a", "A">>
    /\ last.kill
    /\ exit = Exit("kill", "input")

\* the event a prompt emits after a mismatched Enter
ShowFeedback(e) == ControlEvent(e.linked_feedback, "visible", "true")

\* Enter has been dispatched to prompt i on a text that differs from the
\* correct password: the text is cleared and the update that followed
\* returned kill = false and focused = true; if its draw succeeded the
\* loop is still running and the one event queued in this pass is the
\* prompt's
MismatchedEnterShowsFeedback(i) ==
    (EnterDispatched(i) /\ entered[1] # entities[i].correct_password) =>
        /\ entities[i].password = <<>>
        /\ Adjacent(Entry("offer", i, TRUE), Entry("update", i, FALSE))
        /\ last.op = "update_draw" /\ last.i = i
        /\ ~last.kill
        /\ last.focused
        /\ last.ok =>
            /\ pc = "input"
            /\ outcome = "running"
            /\ events_to_process = <<ShowFeedback(entities[i])>>

\* the step that ends an input pass in which a mismatched Enter was
\* dispatched leaves the linked feedback entity with "visible" = "true"
MismatchApplied(i) ==
    (/\ EnterDispatched(i)
     /\ entered[1] # entities[i].correct_password
     /\ pc = "input"
     /\ pc' # "input") =>
        /\ pc' = "tick"
        /\ applied'.events = <<ShowFeedback(entities[i])>>
        /\ \A j \in 1..Len(entities) :
                IsFirstNamed(j, entities[i].linked_feedback) =>
                    entities'[j].properties["visible"] = "true"

\* C14 as stated: when Enter is dispatched while the entered text differs
\* from the correct password, the text is cleared, the prompt's update in
\* that input pass returns kill = false and focused = true with exactly
\* one event {linked feedback name, "visible", "true"}, the loop keeps
\* running, and the event is applied to the feedback entity at the end of
\* that input pass.
C14_MismatchedEnterShowsFeedback ==
    /\ [](\A i \in 1..Len(entities) : MismatchedEnterShowsFeedback(i))
    /\ [][\A i \in 1..Len(entities) : MismatchApplied(i)]_vars

\* the same for the prompts whose correct password is not empty
C14_NonEmptyPassword ==
    /\ [](\A i \in 1..Len(entities) :
            entities[i].correct_password # <<>> => MismatchedEnterShowsFeedback(i))
    /\ [][\A i \in 1..Len(entities) :
            entities[i].correct_password # <<>> => MismatchApplied(i)]_vars

\* str::to_lowercase and str::trim, on the characters of Chars
Lower(c) == IF c = "A" THEN "a" ELSE c
ToLowercase(s) == [n \in 1..Len(s) |-> Lower(s[n])]

RECURSIVE TrimStart(_)
TrimStart(s) == IF s # <<>> /\ Head(s) = " " THEN TrimStart(Tail(s)) ELSE s

RECURSIVE TrimEnd(_)
TrimEnd(s) == IF s # <<>> /\ s[Len(s)] = " " THEN TrimEnd(Pop(s)) ELSE s

Trim(s) == TrimEnd(TrimStart(s))

\* two texts that differ at most in letter case and surrounding blanks
SameButCaseAndBlanks(s, t) == ToLowercase(Trim(s)) = ToLowercase(Trim(t))

\* C15 as stated: an entered text that differs from the configured password
\* only in letter case or in leading or trailing blanks is accepted on
\* Enter: the prompt's update returns kill = true and the loop ends.
C15_CaseAndBlankInsensitive ==
    \A i \in 1..Len(entities) :
        (/\ EnterDispatched(i)
         /\ SameButCaseAndBlanks(entered[1], entities[i].correct_password)) =>
            /\ last.op = "update_draw" /\ last.i = i /\ last.kill
            /\ pc = "unwind"

-----------------------------------------------------------------------------
(* The feedback banner *)

Expired(e) ==
    e.last_shown # <<>> /\ now - e.last_shown[1] >= e.max_show_duration

\* this step runs the update of the feedback entity at position j
FeedbackUpdated(j) ==
    /\ entities[j].kind = "feedback"
    /\ pc = "tick"
    /\ idx = j
    /\ (idx' = j + 1 \/ pc' = "unwind")

\* what an update of the feedback entity does: hidden, it stays as it is;
\* visible with no timer, the timer starts now; visible with a timer, it
\* stays as it is before max_show_duration has passed and is hidden with
\* the timer cleared from then on
AutoHide(j) ==
    FeedbackUpdated(j) =>
        LET e == entities[j]
            e2 == entities'[j]
        IN  /\ ~is_visible(e) => e2 = e
            /\ (is_visible(e) /\ e.last_shown = <<>> /\ e.max_show_duration > 0) =>
                    e2 = [e EXCEPT !.last_shown = <<now>>]
            /\ (is_visible(e) /\ e.last_shown # <<>> /\ ~Expired(e)) => e2 = e
            /\ (is_visible(e) /\ Expired(e)) =>
                    /\ e2.properties["visible"] = "false"
                    /\ e2.last_shown = <<>>

\* a hidden feedback entity becomes visible only by an event of the batch
\* applied at the end of a pass
ShownByEvent(j) ==
    (/\ entities[j].kind = "feedback"
     /\ ~is_visible(entities[j])
     /\ is_visible(entities'[j])) =>
        /\ pc \in {"tick", "input"}
        /\ idx > Len(entities)
        /\ \E n \in DOMAIN events_to_process :
            /\ events_to_process[n].name = get_name(entities[j])
            /\ events_to_process[n].property_key = "visible"
            /\ events_to_process[n].property_value = "true"

FeedbackSteps == \A j \in 1..Len(entities) : AutoHide(j) /\ ShownByEvent(j)

\* a feedback entity is visible, its timer started early enough to expire
\* before the clock of the model stops
ShowingWithTimer ==
    \E j \in 1..Len(entities) :
        /\ entities[j].kind = "feedback"
        /\ is_visible(entities[j])
        /\ entities[j].last_shown # <<>>
        /\ entities[j].last_shown[1] + entities[j].max_show_duration <= MaxTime

NoFeedbackVisible ==
    \A j \in 1..Len(entities) :
        entities[j].kind = "feedback" => ~is_visible(entities[j])

\* C16: once the update of the feedback entity has seen it visible and
\* started the timer, the first update at least max_show_duration later
\* sets "visible" to "false" and clears the timer, no update before that
\* hides it, and a hidden feedback entity is left hidden by its update and
\* becomes visible again only by an applied event; so while the loop keeps
\* ticking a visible feedback entity is eventually hidden.
C16_FeedbackAutoHides ==
    /\ [][FeedbackSteps]_vars
    /\ ShowingWithTimer ~> (NoFeedbackVisible \/ ~InLoop)

\* C16 witness: the feedback entity, constructed visible, has been updated
\* and is hidden with its timer cleared, one show time after the start
C16_Witness ==
    /\ pc = "tick"
    /\ idx = 3
    /\ Len(entities) = 2
    /\ last.op = "update_draw"
    /\ last.i = 2
    /\ entities[2].kind = "feedback"
    /\ entities[2].properties["visible"] = "false"
    /\ entities[2].last_shown = <<>>
    /\ now = entities[2].max_show_duration

\* C17: whatever the configured total and however the updates are spaced,
\* an update of the countdown entity made when the time elapsed since its
\* construction is at least the total returns kill = true
C17_CountdownTerminates ==
    (pc = "countdown" /\ call.op = "update"
        /\ call.elapsed >= entities[1].total)
    => call.kill

\* a 20 s countdown updated one second before its end without kill, and
\* then at exactly 20 s elapsed with kill
C17_Witness ==
    /\ pc = "countdown"
    /\ entities[1].total = 20 * UnitsPerSec
    /\ call.op = "update"
    /\ call.elapsed = entities[1].total
    /\ call.kill
    /\ call.prev = "update"
    /\ ~call.prev_kill

\* the decimal digits and the number two of them spell
DigitChars == {Digit(d) : d \in 0..9}
DigitValue(c) == CHOOSE d \in 0..9 : Digit(d) = c
TwoDigits(text, p) == 10 * DigitValue(text[p]) + DigitValue(text[p + 1])

\* text is MM:SS: two digits, a colon, two digits, the seconds below 60
IsMMSS(text) ==
    /\ Len(text) = 5
    /\ text[3] = ":"
    /\ \A p \in {1, 2, 4, 5} : text[p] \in DigitChars
    /\ TwoDigits(text, 4) <= 59

\* the whole seconds left of total after elapsed, never below zero
WholeSecondsLeft(total, elapsed) ==
    IF elapsed >= total THEN 0 ELSE (total - elapsed) \div UnitsPerSec

\* the countdown's text after its latest update is MM:SS and shows the
\* whole seconds remaining
DisplaysRemaining ==
    LET text == entities[1].print_text
    IN  /\ IsMMSS(text)
        /\ 60 * TwoDigits(text, 1) + TwoDigits(text, 4)
              = WholeSecondsLeft(entities[1].total, call.elapsed)
        /\ call.elapsed >= entities[1].total => text = <<"0", "0", ":", "0", "0">>

\* C18: after every update of the countdown entity its text is MM:SS with
\* exactly two digits of minutes and two of seconds (00..59), shows the
\* whole seconds remaining, and is 00:00 once the total has elapsed, for
\* every configured total, those of 100 minutes and more included
C18_TextAlwaysMMSS ==
    (pc = "countdown" /\ call.op = "update") => DisplaysRemaining

\* the same for the totals under 100 minutes
C18_UnderHundredMinutes ==
    (pc = "countdown" /\ call.op = "update" /\ entities[1].total < 100 * Minute)
    => DisplaysRemaining

\* a step taken while the tick pass still has an entity to update and draw
\* leaves every entity as it was, except that the entity whose turn it is
\* becomes what its own update made of it (the feedback entity's update
\* sets its own "visible"; that is no event)
TickPassKeeps ==
    (pc = "tick" /\ idx <= Len(entities)) =>
        /\ \A j \in 1..Len(entities) : j # idx => entities'[j] = entities[j]
        /\ \/ entities'[idx] = entities[idx]
           \/ \E u \in update(entities[idx], entities, now) : entities'[idx] = u.ent

\* when the events of a tick pass have been applied, the pass log holds the
\* update and the completed draw of every entity, in registration order
AppliedAfterPass ==
    applied.phase = "tick" =>
        /\ Len(log) = 2 * Len(entities)
        /\ \A j \in 1..Len(entities) :
            /\ log[2 * j - 1] = Entry("update", j, FALSE)
            /\ log[2 * j] = Entry("draw", j, TRUE)

\* C19: the events the updates of a tick pass emit are applied only after
\* every entity of the pass has been updated and drawn: while the pass runs
\* an entity changes by its own update alone, so no update or draw of the
\* pass sees a property change caused by an event of the same pass, whether
\* its target is registered before or after the emitter.
C19_TickEventsDeferred == []AppliedAfterPass /\ [][TickPassKeeps]_vars

\* C19 witness: the first entity emitted an event for the last one and the
\* second entity an event for the first one (the only updates that queue
\* these two events in this order); both were applied after the pass
C19_Witness ==
    /\ applied.phase = "tick"
    /\ Len(entities) = 3
    /\ Len(applied.events) = 2
    /\ applied.events[1].name = get_name(entities[3])
    /\ applied.events[1].name # get_name(entities[1])
    /\ applied.events[2].name = get_name(entities[1])
    /\ applied.before[3]["k"] = None
    /\ entities[3].properties["k"] = "true"
    /\ applied.before[1]["visible"] = None
    /\ entities[1].properties["visible"] = "false"

\* the pass log is that of an input pass, running or just ended
InputLog == pc = "input" \/ (pc = "unwind" /\ exit.phase = "input")

\* the entities offered the event so far, each once and in registration
\* order
OffersInOrder ==
    LET offers == SelectSeq(log, LAMBDA x : x.op = "offer")
    IN  /\ \A n \in DOMAIN offers : offers[n].i = n
        /\ pc = "input" => Len(offers) = idx - 1

\* an update in the log follows the handle_event of the same entity that
\* returned true, a draw follows the update of the same entity, and a
\* handle_event that returned true is followed by that entity's update
UpdatedIffActed ==
    \A p \in DOMAIN log :
        /\ log[p].op = "update" =>
                p > 1 /\ log[p - 1] = Entry("offer", log[p].i, TRUE)
        /\ log[p].op = "draw" =>
                p > 1 /\ log[p - 1].op = "update" /\ log[p - 1].i = log[p].i
        /\ (log[p].op = "offer" /\ log[p].flag) =>
                p < Len(log) /\ log[p + 1].op = "update" /\ log[p + 1].i = log[p].i

\* while the input pass runs, every update in the log is followed by the
\* completed draw of the same entity
UpdatedThenDrawn ==
    pc = "input" =>
        \A p \in DOMAIN log :
            log[p].op = "update" =>
                p < Len(log) /\ log[p + 1] = Entry("draw", log[p].i, TRUE)

InputPassShape == InputLog => (OffersInOrder /\ UpdatedIffActed /\ UpdatedThenDrawn)

\* the queue is empty when the input pass starts
InputStartsEmpty == (pc = "poll" /\ pc' = "input") => events_to_process' = <<>>

\* a step of the input pass for an entity whose handle_event returned false
\* queues nothing and touches no other entity and not the terminal; a step
\* for one that returned true queues the events of that entity's update
InputQueueFromActed ==
    (pc = "input" /\ idx <= Len(entities) /\ log' # log) =>
        LET offer == log'[Len(log) + 1]
        IN  /\ offer.op = "offer" /\ offer.i = idx
            /\ \A j \in 1..Len(entities) : j # idx => entities'[j] = entities[j]
            /\ ~offer.flag =>
                /\ events_to_process' = events_to_process
                /\ term' = term
                /\ Len(log') = Len(log) + 1
            /\ offer.flag =>
                \E h \in handle_event(entities[idx], event) :
                    /\ h.acted
                    /\ \E u \in update(h.ent, entities, now) :
                        /\ entities'[idx] = u.ent
                        /\ events_to_process' \in
                            {events_to_process, events_to_process \o u.res.events}

\* the batch applied at the end of the input pass is the queue
InputAppliesQueue ==
    (pc = "input" /\ idx > Len(entities) /\ pc' = "tick") =>
        /\ applied'.phase = "input"
        /\ applied'.events = events_to_process
        /\ entities' = execute_entity_events(entities, events_to_process)

InputPassSteps == InputStartsEmpty /\ InputQueueFromActed /\ InputAppliesQueue

\* C20: in the input pass an entity is updated and drawn again if and only
\* if its handle_event returned true for the event; an entity that returned
\* false gets no update and no draw in that pass; and the events applied at
\* the end of the pass are those the updates of the consuming entities
\* returned, and no others.
C20_OnlyConsumersUpdated == []InputPassShape /\ [][InputPassSteps]_vars

\* C20 witness: at the end of an input pass the first entity has declined
\* the event and was neither updated nor drawn, the second has consumed it
\* and was updated and drawn, and the queue holds the one event its update
\* returned
C20_Witness ==
    /\ pc = "input"
    /\ idx > Len(entities)
    /\ Len(entities) = 3
    /\ Len(log) >= 4
    /\ SubSeq(log, 1, 4) = <<Entry("offer", 1, FALSE), Entry("offer", 2, TRUE),
                             Entry("update", 2, FALSE), Entry("draw", 2, TRUE)>>
    /\ Len(events_to_process) = 1

\* the handle_event calls of the pass log
Offers == SelectSeq(log, LAMBDA x : x.op = "offer")

\* the input pass has offered the event to the entities before idx, each
\* once and in registration order, whether or not an earlier one consumed it
OfferedInOrder ==
    InputLog =>
        /\ \A n \in DOMAIN Offers : Offers[n].i = n
        /\ pc = "input" => Len(Offers) = idx - 1

\* when the for loop of the input pass is over, every entity was offered
AllOffered ==
    (pc = "input" /\ idx > Len(entities)) => Len(Offers) = Len(entities)

\* the input pass is left before its end only from the update_and_draw of
\* the entity offered last, by kill or by a failed terminal call
EarlyExitOnlyByKillOrError ==
    (pc = "unwind" /\ exit.phase = "input") =>
        /\ exit.path \in {"kill", "save", "draw", "restore"}
        /\ Len(Offers) >= 1
        /\ Offers[Len(Offers)].flag
        /\ last.op = "update_draw" /\ last.i = Len(Offers)
        /\ exit.path = "kill" <=> (last.kill /\ last.ok)
        /\ exit.path # "kill" <=> ~last.ok

\* one event per iteration: an event is read only at the poll, stays the
\* same for the whole input pass, and the pass is followed by the next tick
\* pass, not by another read
OneEventPerIteration ==
    /\ event' # event => ((pc = "poll" /\ pc' = "input") \/ pc' \in {"tick", "returned"})
    /\ (pc = "input" /\ pc' # pc) => pc' \in {"tick", "unwind"}
    /\ pc' = "input" => pc \in {"poll", "input"}

\* C21 as stated: unless a consuming entity's update returned kill, an event
\* that arrived is offered to every registered entity
C21_OfferedToAllUnlessKill ==
    (InputLog /\ (pc = "input" => idx > Len(entities)) /\ ~(last.op = "update_draw" /\ last.kill))
    => Len(Offers) = Len(entities)

\* C21: an event that arrived is offered to every registered entity once, in
\* registration order, also to those registered after an entity that
\* consumed it, unless the update_and_draw of a consuming entity returned
\* kill or failed on a terminal call; one event is dispatched per iteration.
C21_OfferedToAllUnlessKillOrError ==
    /\ [](OfferedInOrder /\ AllOffered /\ EarlyExitOnlyByKillOrError)
    /\ [][OneEventPerIteration]_vars

\* C21 witness: the first entity consumed the event, was updated and drawn,
\* and the two entities registered after it were offered the event too
C21_Witness ==
    /\ pc = "input"
    /\ idx > Len(entities)
    /\ Len(entities) = 3
    /\ Len(Offers) = 3
    /\ Offers[1] = Entry("offer", 1, TRUE)
    /\ log[2] = Entry("update", 1, FALSE)
    /\ Offers[2].i = 2
    /\ Offers[3].i = 3

\* the pass goes on from entity idx to the next one
PassStep == pc \in {"tick", "input"} /\ idx <= Len(entities) /\ pc' = pc /\ idx' = idx + 1

\* a pass step appends to the queue exactly the events the update of entity
\* idx returned, in the order of the result, and nothing when the entity
\* was not updated
QueueExtended ==
    PassStep =>
        \/ /\ pc = "tick"
           /\ \E u \in update(entities[idx], entities, now) :
                /\ entities'[idx] = u.ent
                /\ events_to_process' = events_to_process \o u.res.events
        \/ /\ pc = "input"
           /\ \E h \in handle_event(entities[idx], event) :
                IF h.acted
                THEN \E u \in update(h.ent, entities, now) :
                        /\ entities'[idx] = u.ent
                        /\ events_to_process' = events_to_process \o u.res.events
                ELSE events_to_process' = events_to_process

\* the loop of a pass is over and its events are applied
PassEnd == pc \in {"tick", "input"} /\ idx > Len(entities) /\ pc' # pc

\* at the end of a pass the whole queue is applied in its order, and the
\* queue is empty afterwards
QueueAppliedOnce ==
    PassEnd =>
        /\ applied'.phase = pc
        /\ applied'.events = events_to_process
        /\ entities' = execute_entity_events(entities, events_to_process)
        /\ events_to_process' = <<>>

\* outside the end of a pass no property map is changed by an event: an
\* entity changes only at its own turn
NoOtherApplication ==
    ~PassEnd =>
        \A j \in 1..Len(entities) :
            (j # idx \/ pc \notin {"tick", "input"}) => entities'[j] = entities[j]

EventSteps == QueueExtended /\ QueueAppliedOnce /\ NoOtherApplication

\* a pass starts with an empty queue, so nothing applied after the tick pass
\* is left for the input pass
PassStartsEmpty ==
    /\ pc = "poll" => events_to_process = <<>>
    /\ (pc \in {"tick", "input"} /\ idx = 1) => events_to_process = <<>>

\* of two applied events for the same entity and key the later decides
LaterEventDecides ==
    applied.phase # "none" =>
        \A p \in DOMAIN applied.events : \A q \in DOMAIN applied.events :
            (/\ p < q
             /\ applied.events[p].name = applied.events[q].name
             /\ applied.events[p].property_key = applied.events[q].property_key
             /\ \A r \in (q + 1)..Len(applied.events) :
                    \/ applied.events[r].name # applied.events[q].name
                    \/ applied.events[r].property_key # applied.events[q].property_key) =>
                \A j \in 1..Len(entities) :
                    IsFirstNamed(j, applied.events[q].name) =>
                        entities[j].properties[applied.events[q].property_key]
                            = applied.events[q].property_value

\* C22: the events emitted in a pass that completes are queued in the order
\* of the emitters and, per emitter, of emission; the whole queue is applied
\* once, in that order, at the end of the pass in which it was filled, so of
\* two events for one target and key the later decides; the queue is empty
\* afterwards, so the events of the tick pass are not applied again after
\* the input pass.
C22_EventsAppliedOnceInOrder ==
    /\ [](PassStartsEmpty /\ LaterEventDecides)
    /\ [][EventSteps]_vars

\* C22 witness: the first entity emitted hide and show for itself, the
\* second hide for the first (the only updates that queue these three in
\* this order); applied in order after the tick pass they leave it hidden
C22_Witness ==
    /\ applied.phase = "tick"
    /\ pc = "poll"
    /\ Len(applied.events) = 3
    /\ \A p \in 1..3 :
        /\ applied.events[p].name = get_name(entities[1])
        /\ applied.events[p].property_key = "visible"
    /\ applied.events[1].property_value = "false"
    /\ applied.events[2].property_value = "true"
    /\ applied.events[3].property_value = "false"
    /\ applied.before[1]["visible"] = None
    /\ entities[1].properties["visible"] = "false"
    /\ events_to_process = <<>>

\* an update of entity idx returned kill and work_loop returns Ok
KillStep == pc \in {"tick", "input"} /\ pc' = "unwind" /\ exit'.path = "kill"

\* what the entity at its turn may become by its own handle_event and update
OwnTurn(e) ==
    IF pc = "tick"
    THEN {u.ent : u \in update(e, entities, now)}
    ELSE UNION {{u.ent : u \in update(h.ent, entities, now)} :
                    h \in {g \in handle_event(e, event) : g.acted}}

\* at the kill nothing is applied: every other entity stays as it is, the
\* killer is what its own update made of it, and the queue is left as it
\* was, without the events of the killing result
KillDiscards ==
    KillStep =>
        /\ \A j \in 1..Len(entities) : j # idx => entities'[j] = entities[j]
        /\ entities'[idx] \in OwnTurn(entities[idx])
        /\ events_to_process' = events_to_process
        /\ applied' = NoApplied

\* from the return of work_loop to the return of execute no entity changes
\* and nothing is applied
NothingAfterReturn ==
    pc \in {"unwind", "returned"} => (entities' = entities /\ applied' = NoApplied)

KillSteps == KillDiscards /\ NothingAfterReturn

\* after a kill no batch of events has been applied
KilledUnapplied == exit.path = "kill" => applied = NoApplied

\* C23: when an update returns kill, the events queued in that pass by the
\* entities before it and the events of the killing result itself are
\* dropped unapplied: no property map changes at the kill or between the
\* kill and the return of work_loop and execute.
C23_KillDiscardsEvents == []KilledUnapplied /\ [][KillSteps]_vars

\* C23 witness: the first entity queued an event for itself, the second
\* returned kill with an event for the last one; the loop has returned and
\* neither property is set
C23_Witness ==
    /\ pc = "unwind"
    /\ exit.path = "kill"
    /\ last.i = 2
    /\ Len(events_to_process) = 1
    /\ events_to_process[1].name = get_name(entities[1])
    /\ events_to_process[1].property_key = "visible"
    /\ Len(exit.carried) = 1
    /\ exit.carried[1].name = get_name(entities[Len(entities)])
    /\ exit.carried[1].property_key = "k"
    /\ entities[1].properties["visible"] = None
    /\ entities[Len(entities)].properties["k"] = None

\* the update of the prompt at position i has just returned kill
PromptKilled(i) ==
    /\ entities[i].kind = "prompt"
    /\ last.op = "update_draw"
    /\ last.i = i
    /\ last.kill

\* C24: for every configured correct password, the empty one included, the
\* update of the password prompt returns kill = true only if the text in
\* the prompt when the most recent Enter was pressed equalled the correct
\* password; an Enter on a mismatching text never ends the loop.
C24_KillOnlyOnMatchingEnter ==
    \A i \in 1..Len(entities) :
        PromptKilled(i) => entered = <<entities[i].correct_password>>

\* the same for the correct passwords that are not empty
C24_NonEmptyPassword ==
    \A i \in 1..Len(entities) :
        (PromptKilled(i) /\ entities[i].correct_password # <<>>) =>
            entered = <<entities[i].correct_password>>

\* the text at this pass's Enter differed from the correct password of a
\* registered prompt
MismatchedEnter ==
    /\ entered # <<>>
    /\ \E i \in 1..Len(entities) :
        /\ entities[i].kind = "prompt"
        /\ entered[1] # entities[i].correct_password

\* before execute has started its loop no Enter has been pressed: the
\* feedback entity is hidden
HiddenAtConstruction ==
    pc = "start" =>
        \A j \in 1..Len(entities) :
            entities[j].kind = "feedback" => ~is_visible(entities[j])

\* a hidden feedback entity becomes visible only at the end of an input
\* pass in which Enter was pressed on a mismatching text
ShownOnlyAfterMismatch ==
    \A j \in 1..Len(entities) :
        (/\ entities[j].kind = "feedback"
         /\ ~is_visible(entities[j])
         /\ is_visible(entities'[j])) =>
            /\ pc = "input"
            /\ idx > Len(entities)
            /\ MismatchedEnter

\* C25: the feedback entity is visible only if a mismatched Enter has
\* occurred in this run and its show duration has not expired: it is hidden
\* from construction on and becomes visible only by a mismatched Enter.
C25_VisibleOnlyAfterMismatch ==
    /\ []HiddenAtConstruction
    /\ [][ShownOnlyAfterMismatch]_vars

\* once hidden, the feedback entity is shown by a mismatched Enter alone
C25_ShownByMismatchOnly == [][ShownOnlyAfterMismatch]_vars

\* C26: the update of the countdown entity returns kill = true only if the
\* time elapsed since its construction is at least the configured total; it
\* does not end the loop while time remains, the last fraction of a second
\* before the total included.
C26_KillOnlyWhenElapsed ==
    (pc = "countdown" /\ call.op = "update" /\ call.kill)
    => call.elapsed >= entities[1].total

\* the countdown's update returns kill = true only if less than one whole
\* second of the total remains
C26_KillOnlyInLastSecond ==
    (pc = "countdown" /\ call.op = "update" /\ call.kill)
    => entities[1].total - call.elapsed < UnitsPerSec

====
